---- MODULE Spec2Model ----
(***************************************************************************)
(* Model of walk.cc: Knuth's Algorithm W (WalkSAT), TAOCP 7.2.2.2.         *)
(*                                                                         *)
(* The program reads a DIMACS file (parse), and unless the formula has no  *)
(* literal at all runs solve: W1 initialises a random assignment and the   *)
(* derived tables, then the loop W2..W5 flips one variable per iteration   *)
(* until the stack f of unsatisfied clauses is empty.                      *)
(*                                                                         *)
(* Indices are zero-based as in the source: clause ids, offsets into       *)
(* clauses and positions in f are stored as the C++ code stores them, and  *)
(* At(s, i) reads element i of a vector that is modelled as a sequence.    *)
(* The input file is modelled after tokenisation: the problem line is the  *)
(* pair (nvars, nclauses) and the clause stream is the sequence of         *)
(* integers fscanf(" %i ") delivers before EOF.                            *)
(*                                                                         *)
(* cost is std::vector<clause_t> and is read back as lit_t in W4; both     *)
(* types are declared in types.h.  The model keeps cost in Z: a decrement  *)
(* below zero is -1 here, which is the value W4 sees after the conversion  *)
(* to lit_t whether clause_t is signed or a 32-bit unsigned that wrapped.  *)
(***************************************************************************)
EXTENDS Integers, Sequences, FiniteSets, TLC

\* ---------------------------------------------------------------- bounds
MaxV == 2

MaxC == 2

MaxTokens == 4

\* the longest clause stream, besides the scenarios, under fair draws
FairTokens == 2

\* clauses of the Cnf on which register_satisfied and register_unsatisfied are
\* exercised alone
MaxRegC == 4

\* ------------------------------------------------------------- constants
\* sentinel of w (types.h): no position in f
clause_nil == -1

\* sentinel of choice (types.h): no literal
lit_nil == 0

\* std::numeric_limits<lit_t>::max(), the initial min_cost of W4
lit_max == 2147483647

\* literals printed per line by print_assignment
PerLine == 10

VARIABLES input, pc, nvars, nclauses, clauses, start, val, cost, invclause,
          f, numtrue, w, K, all, choice, out

vars == <<input, pc, nvars, nclauses, clauses, start, val, cost, invclause,
          f, numtrue, w, K, all, choice, out>>

\* ------------------------------------------------------------- helpers
\* element i (zero-based) of a vector
At(s, i) == s[i + 1]

\* var(l) of types.h: the variable of a literal
var(l) == IF l < 0 THEN -l ELSE l

\* the literals -n..-1, 1..n
Lits(n) == {l \in (-n)..n : l # 0}

\* the element of a one-element set.  Only({F(t) : t \in {e}}) is F(e) with e
\* evaluated once, as a C++ local is computed once and then read many times.
Only(S) == CHOOSE x \in S : TRUE

\* ------------------------------------------------------------- inputs
\* the scenarios S1..S5 of the test plan
S1 == [nvars |-> 1, nclauses |-> 1, toks |-> <<1, 0>>]

S2 == [nvars |-> 1, nclauses |-> 2, toks |-> <<1, 0, -1, 0>>]

S3 == [nvars |-> 0, nclauses |-> 1, toks |-> <<0>>]

S4 == [nvars |-> 4, nclauses |-> 3, toks |-> <<1, 2, 0, 3, 0, -2, -3, 4, 0>>]

S5 == [nvars |-> 3, nclauses |-> 3, toks |-> <<1, 2, 3, 0, -1, -2, 0, -2, -3, 0>>]

Scenarios == {S1, S2, S3, S4, S5}

\* formulas with a repeated literal in a clause, and with a literal and its
\* negation in a clause, longer than the bounded streams
Repeated == [nvars |-> 2, nclauses |-> 2, toks |-> <<1, 1, 2, 0, -1, -2, 0>>]

RepeatedTwice == [nvars |-> 2, nclauses |-> 3, toks |-> <<-2, -2, -1, 0, 2, 2, 0, 1>>]

Tautology == [nvars |-> 2, nclauses |-> 3, toks |-> <<1, -1, 2, 0, -1, 0, -2, 0>>]

TautologyKept == [nvars |-> 2, nclauses |-> 3, toks |-> <<1, -1, 0, 1, 0, 2, 0>>]

Longer == {Repeated, RepeatedTwice, Tautology, TautologyKept}

\* every clause stream of at most MaxTokens integers in -MaxV..MaxV
Streams == UNION {[1..n -> (-MaxV)..MaxV] : n \in 0..MaxTokens}

BoundedInputs == [nvars : 0..MaxV, nclauses : 0..MaxC, toks : Streams]

\* a formula with the literal 1 twice in two clauses, both broken by one flip
RepeatedInTwo ==
    [nvars |-> 2, nclauses |-> 3, toks |-> <<1, 1, 2, 0, 2, 1, 1, 0, -1>>]

Inputs == BoundedInputs \cup Scenarios \cup Longer \cup {RepeatedInTwo}

\* ------------------------------------------------------------- Cnf
\* Cnf::Cnf: the tables as the constructor sizes them
EmptyVal(n) == [v \in 1..n |-> FALSE]

EmptyCost(n) == [v \in 1..n |-> 0]

EmptyInv(n) == [l \in Lits(n) |-> <<>>]

EmptyNumtrue(c) == [k \in 0..(c - 1) |-> 0]

EmptyW(c) == [k \in 0..(c - 1) |-> clause_nil]

\* Cnf::clause_begin
clause_begin(st, c) == At(st, c)

\* clause_end taking the inclusive endpoint clauses.size() - 1 for the last clause
clause_end_inclusive(cl, st, c) ==
    IF c = Len(st) - 1 THEN Len(cl) - 1 ELSE At(st, c + 1)

\* Cnf::clause_end
clause_end(cl, st, c) == IF c = Len(st) - 1 THEN Len(cl) ELSE At(st, c + 1)

\* the literals of clause c in order: clauses[clause_begin(c) .. clause_end(c))
ClauseLits(cl, st, c) ==
    [i \in 1..(clause_end(cl, st, c) - clause_begin(st, c)) |->
        At(cl, clause_begin(st, c) + i - 1)]

\* Cnf::is_true
is_true(vl, l) == (vl[var(l)] /\ l > 0) \/ (~vl[var(l)] /\ l < 0)

\* Cnf::is_satisfied
is_satisfied(cl, st, vl, c) ==
    \E itr \in clause_begin(st, c)..(clause_end(cl, st, c) - 1) :
        is_true(vl, At(cl, itr))

\* ------------------------------------------------------------- parse
\* the inner while(true) of parse: reads literals from token position p
\* (one-based) until a 0 or EOF.  eof: fscanf returned EOF; p: next token.
RECURSIVE ReadClause(_, _, _)
ReadClause(toks, p, cl) ==
    IF p > Len(toks) THEN [eof |-> TRUE, p |-> p, cl |-> cl]
    ELSE IF toks[p] = 0 THEN [eof |-> FALSE, p |-> p + 1, cl |-> cl]
    ELSE ReadClause(toks, p + 1, Append(cl, toks[p]))

\* the do/while of parse testing c.clauses.empty() instead of comparing with
\* start: an empty clause is noticed only before the first literal
RECURSIVE ReadClauses_first_only(_, _, _, _)
ReadClauses_first_only(toks, p, cl, st) ==
    Only({
        IF ~r.eof /\ Len(r.cl) = 0
        THEN [status |-> "unsat", clauses |-> r.cl, start |-> st]
        ELSE IF ~(Len(r.cl) > Len(cl))
        THEN [status |-> "ok", clauses |-> r.cl, start |-> st]
        ELSE IF ~r.eof
        THEN ReadClauses_first_only(toks, r.p, r.cl, Append(st, Len(cl)))
        ELSE [status |-> "ok", clauses |-> r.cl, start |-> Append(st, Len(cl))]
        : r \in {ReadClause(toks, p, cl)}})

\* the do/while of parse: one clause per round
RECURSIVE ReadClauses(_, _, _, _)
ReadClauses(toks, p, cl, st) ==
    Only({
        IF ~r.eof /\ Len(cl) = Len(r.cl)
        THEN [status |-> "unsat", clauses |-> r.cl, start |-> st]
        ELSE IF ~(Len(r.cl) > Len(cl))
        THEN [status |-> "ok", clauses |-> r.cl, start |-> st]
        ELSE IF ~r.eof
        THEN ReadClauses(toks, r.p, r.cl, Append(st, Len(cl)))
        ELSE [status |-> "ok", clauses |-> r.cl, start |-> Append(st, Len(cl))]
        : r \in {ReadClause(toks, p, cl)}})

\* parse: the clause loop, then CHECK(c.start.size() == c.nclauses)
parse(in) ==
    Only({IF r.status = "ok" /\ Len(r.start) # in.nclauses
          THEN [r EXCEPT !.status = "abort"]
          ELSE r
          : r \in {ReadClauses(in.toks, 1, <<>>, <<>>)}})

\* ------------------------------------------------------------- printing
\* Cnf::print_assignment: the lines printed, each a "v" prefix and the
\* integers that follow it (the closing 0 included)
RECURSIVE PrintFrom(_, _, _, _)
PrintFrom(vl, n, i, lines) ==
    IF i > n THEN lines
    ELSE LET j == i - 1
             lit == IF vl[i] THEN -i ELSE i
         IN  Only({PrintFrom(vl, n, i + 1,
                       IF i = n
                       THEN [withLit EXCEPT ![Len(withLit)].lits = Append(@, 0)]
                       ELSE withLit)
                   : withLit \in
                       {[open EXCEPT ![Len(open)].lits = Append(@, lit)]
                        : open \in
                            {IF j % PerLine = 0
                             THEN Append(lines, [prefix |-> "v", lits |-> <<>>])
                             ELSE lines}}})

print_assignment(vl, n) == PrintFrom(vl, n, 1, <<>>)

\* ------------------------------------------------------------- f / w
\* register_satisfied that forgets the reverse index of the element swapped in
register_satisfied_stale_w(s, c) ==
    IF s.w[c] = clause_nil THEN s
    ELSE LET last == Len(s.f) - 1
             pos == s.w[c]
             f1 == [s.f EXCEPT ![pos + 1] = At(s.f, last),
                               ![last + 1] = At(s.f, pos)]
         IN  [s EXCEPT !.w = [s.w EXCEPT ![c] = clause_nil],
                       !.f = SubSeq(f1, 1, last)]

\* register_satisfied returning before the removal
register_satisfied_no_remove(s, c) == s

\* register_satisfied shrinking f without the swap: the last clause leaves f
register_satisfied_pop_last(s, c) ==
    IF s.w[c] = clause_nil THEN s
    ELSE [s EXCEPT !.w = [s.w EXCEPT ![c] = clause_nil],
                   !.f = SubSeq(s.f, 1, Len(s.f) - 1)]

\* Cnf::register_satisfied: swap-remove c from f
register_satisfied(s, c) ==
    IF s.w[c] = clause_nil THEN s
    ELSE LET last == Len(s.f) - 1
             w1 == [s.w EXCEPT ![At(s.f, last)] = s.w[c]]
             pos == w1[c]
             f1 == [s.f EXCEPT ![pos + 1] = At(s.f, last),
                               ![last + 1] = At(s.f, pos)]
         IN  [s EXCEPT !.w = [w1 EXCEPT ![c] = clause_nil],
                       !.f = SubSeq(f1, 1, last)]

\* register_unsatisfied with the guard inverted: if (w[c] == clause_nil) return
register_unsatisfied_inverted_guard(s, c) ==
    IF s.w[c] = clause_nil THEN s
    ELSE [s EXCEPT !.w = [s.w EXCEPT ![c] = Len(s.f)],
                   !.f = Append(s.f, c)]

\* register_unsatisfied without the guard on w[c]
register_unsatisfied_no_guard(s, c) ==
    [s EXCEPT !.w = [s.w EXCEPT ![c] = Len(s.f)],
              !.f = Append(s.f, c)]

\* Cnf::register_unsatisfied: push c on f
register_unsatisfied(s, c) ==
    IF s.w[c] # clause_nil THEN s
    ELSE [s EXCEPT !.w = [s.w EXCEPT ![c] = Len(s.f)],
                   !.f = Append(s.f, c)]

\* ------------------------------------------------------------- W1
\* the inner loop of W1 entering clause i in invclause[l] once per literal l
RECURSIVE W1Lits_no_repeat(_, _, _, _, _)
W1Lits_no_repeat(vl, i, j, s, tl) ==
    IF j >= clause_end(clauses, start, i) THEN [s |-> s, tl |-> tl]
    ELSE LET l == At(clauses, j)
         IN  Only({IF is_true(vl, l)
                   THEN W1Lits_no_repeat(vl, i, j + 1,
                                         [s1 EXCEPT !.numtrue[i] = @ + 1], var(l))
                   ELSE W1Lits_no_repeat(vl, i, j + 1, s1, tl)
                   : s1 \in {IF \E n \in 1..Len(s.invclause[l]) :
                                    s.invclause[l][n] = i
                             THEN s
                             ELSE [s EXCEPT !.invclause[l] = Append(@, i)]}})

\* the inner loop of W1 over the literals of clause i, from offset j
RECURSIVE W1Lits(_, _, _, _, _)
W1Lits(vl, i, j, s, tl) ==
    IF j >= clause_end(clauses, start, i) THEN [s |-> s, tl |-> tl]
    ELSE LET l == At(clauses, j)
         IN  Only({IF is_true(vl, l)
                   THEN W1Lits(vl, i, j + 1,
                               [s1 EXCEPT !.numtrue[i] = @ + 1], var(l))
                   ELSE W1Lits(vl, i, j + 1, s1, tl)
                   : s1 \in {[s EXCEPT !.invclause[l] = Append(@, i)]}})

\* the outer loop of W1 over the clauses, from clause i
RECURSIVE W1Clauses(_, _, _)
W1Clauses(vl, i, s) ==
    IF i >= nclauses THEN s
    ELSE Only({W1Clauses(vl, i + 1, s2)
               : s2 \in
                   {IF r.s.numtrue[i] = 0
                    THEN [r.s EXCEPT !.w[i] = Len(r.s.f),
                                     !.f = Append(r.s.f, i)]
                    ELSE IF r.s.numtrue[i] = 1
                    THEN [r.s EXCEPT !.cost[r.tl] = @ + 1]
                    ELSE r.s
                    : r \in {W1Lits(vl, i, clause_begin(start, i), s, lit_nil)}}})

\* W1 from the tables the constructor left, under the drawn assignment vl
W1Result(vl) ==
    W1Clauses(vl, 0, [invclause |-> invclause, numtrue |-> numtrue,
                      cost |-> cost, f |-> f, w |-> w])

\* ------------------------------------------------------------- W4
\* flip(1.0/k) decided by the coin alone, also at k = 1
FlipInv_coin_only(k, coin) == coin

\* flip(1.0/k): rand()/RAND_MAX <= 1 always holds, otherwise the coin decides
FlipInv(k, coin) == k = 1 \/ coin

\* the scan of W4 over the literals of the chosen clause, from offset itr;
\* coins[n] is the outcome of the draw made at the clause's n-th literal
\* (zero-based), if one is made there
RECURSIVE W4Scan(_, _, _, _, _, _, _)
W4Scan(c, itr, allv, coins, k, min_cost, ch) ==
    IF itr >= clause_end(clauses, start, c) THEN ch
    ELSE LET l == At(clauses, itr)
             cst == cost[var(l)]
             lower == cst < min_cost
         IN  Only({Only({
                 IF (allv /\ mc > 0) \/ cst = mc
                 THEN Only({W4Scan(c, itr + 1, allv, coins, k1 + 1, mc, ch1)
                            : ch1 \in
                                {IF FlipInv(k1, coins[itr - clause_begin(start, c)])
                                 THEN l ELSE ch}})
                 ELSE W4Scan(c, itr + 1, allv, coins, k1, mc, ch)
                 : k1 \in {IF lower /\ (~allv \/ mc = 0) THEN 1 ELSE k}})
                 : mc \in {IF lower THEN cst ELSE min_cost}})

\* W4 taking the first literal of the clause whatever the costs
W4Choice_first_literal(c, allv, coins) == At(clauses, clause_begin(start, c))

W4Choice(c, allv, coins) ==
    W4Scan(c, clause_begin(start, c), allv, coins, 1, lit_max, lit_nil)

\* ------------------------------------------------------------- W5
\* the scan for the first true literal of clause i (lost loop)
RECURSIVE FirstTrue(_, _, _)
FirstTrue(vl, i, itr) ==
    IF itr >= clause_end(clauses, start, i) THEN lit_nil
    ELSE IF is_true(vl, At(clauses, itr)) THEN At(clauses, itr)
    ELSE FirstTrue(vl, i, itr + 1)

\* the scan for the first true literal of clause i other than neg (gained loop)
RECURSIVE FirstOtherTrue(_, _, _, _)
FirstOtherTrue(vl, i, itr, neg) ==
    IF itr >= clause_end(clauses, start, i) THEN lit_nil
    ELSE IF At(clauses, itr) # neg /\ is_true(vl, At(clauses, itr))
    THEN At(clauses, itr)
    ELSE FirstOtherTrue(vl, i, itr + 1, neg)

\* the lost loop without the registration of a newly unsatisfied clause
LostStep_no_register(vl, v, i, s) ==
    Only({
        IF s1.numtrue[i] = 0
        THEN [s1 EXCEPT !.cost[v] = @ - 1]
        ELSE IF s1.numtrue[i] = 1
        THEN Only({IF t = lit_nil THEN s1
                   ELSE [s1 EXCEPT !.cost[var(t)] = @ + 1]
                   : t \in {FirstTrue(vl, i, clause_begin(start, i))}})
        ELSE s1
        : s1 \in {[s EXCEPT !.numtrue[i] = @ - 1]}})

\* one round of the loop over invclause[pos]: clause i lost a true literal
LostStep(vl, v, i, s) ==
    Only({
        IF s1.numtrue[i] = 0
        THEN [register_unsatisfied(s1, i) EXCEPT !.cost[v] = @ - 1]
        ELSE IF s1.numtrue[i] = 1
        THEN Only({IF t = lit_nil THEN s1
                   ELSE [s1 EXCEPT !.cost[var(t)] = @ + 1]
                   : t \in {FirstTrue(vl, i, clause_begin(start, i))}})
        ELSE s1
        : s1 \in {[s EXCEPT !.numtrue[i] = @ - 1]}})

\* the gained loop that never decrements the cost of the other true literal
GainedStep_no_decrement(vl, v, neg, i, s) ==
    Only({
        IF s1.numtrue[i] = 1
        THEN [register_satisfied(s1, i) EXCEPT !.cost[v] = @ + 1]
        ELSE s1
        : s1 \in {[s EXCEPT !.numtrue[i] = @ + 1]}})

\* one round of the loop over invclause[neg]: clause i gained a true literal
GainedStep(vl, v, neg, i, s) ==
    Only({
        IF s1.numtrue[i] = 1
        THEN [register_satisfied(s1, i) EXCEPT !.cost[v] = @ + 1]
        ELSE IF s1.numtrue[i] = 2
        THEN Only({IF t = lit_nil THEN s1
                   ELSE [s1 EXCEPT !.cost[var(t)] = @ - 1]
                   : t \in {FirstOtherTrue(vl, i, clause_begin(start, i), neg)}})
        ELSE s1
        : s1 \in {[s EXCEPT !.numtrue[i] = @ + 1]}})

RECURSIVE LostLoop(_, _, _, _, _)
LostLoop(vl, v, cs, n, s) ==
    IF n > Len(cs) THEN s
    ELSE Only({LostLoop(vl, v, cs, n + 1, t)
               : t \in {LostStep(vl, v, cs[n], s)}})

RECURSIVE GainedLoop(_, _, _, _, _, _)
GainedLoop(vl, v, neg, cs, n, s) ==
    IF n > Len(cs) THEN s
    ELSE Only({GainedLoop(vl, v, neg, cs, n + 1, t)
               : t \in {GainedStep(vl, v, neg, cs[n], s)}})

\* a clause list without its repeated entries
RECURSIVE Distinct(_)
Distinct(cs) ==
    IF cs = <<>> THEN <<>>
    ELSE LET r == Distinct(Tail(cs))
         IN  IF \E n \in 1..Len(r) : r[n] = Head(cs) THEN r
             ELSE <<Head(cs)>> \o r

\* W5 visiting every clause of invclause[pos] and invclause[neg] once
W5Flip_distinct_clauses(ch) ==
    LET v == var(ch)
        pos == IF val[v] = (ch > 0) THEN ch ELSE -ch
        neg == -pos
        vl == [val EXCEPT ![v] = ~@]
        s0 == [numtrue |-> numtrue, cost |-> cost, f |-> f, w |-> w]
    IN  Only({[val |-> vl, numtrue |-> s2.numtrue, cost |-> s2.cost,
               f |-> s2.f, w |-> s2.w]
              : s2 \in
                  {GainedLoop(vl, v, neg, Distinct(invclause[neg]), 1, s1)
                   : s1 \in {LostLoop(vl, v, Distinct(invclause[pos]), 1, s0)}}})

\* W5 taking the chosen literal for the one that is true before the flip
W5Flip_pos_is_choice(ch) ==
    LET v == var(ch)
        pos == ch
        neg == -pos
        vl == [val EXCEPT ![v] = ~@]
        s0 == [numtrue |-> numtrue, cost |-> cost, f |-> f, w |-> w]
    IN  Only({[val |-> vl, numtrue |-> s2.numtrue, cost |-> s2.cost,
               f |-> s2.f, w |-> s2.w]
              : s2 \in
                  {GainedLoop(vl, v, neg, invclause[neg], 1, s1)
                   : s1 \in {LostLoop(vl, v, invclause[pos], 1, s0)}}})

\* W5: flip the variable of ch and update numtrue, cost, f and w
W5Flip(ch) ==
    LET v == var(ch)
        pos == IF val[v] = (ch > 0) THEN ch ELSE -ch
        neg == -pos
        vl == [val EXCEPT ![v] = ~@]
        s0 == [numtrue |-> numtrue, cost |-> cost, f |-> f, w |-> w]
    IN  Only({[val |-> vl, numtrue |-> s2.numtrue, cost |-> s2.cost,
               f |-> s2.f, w |-> s2.w]
              : s2 \in
                  {GainedLoop(vl, v, neg, invclause[neg], 1, s1)
                   : s1 \in {LostLoop(vl, v, invclause[pos], 1, s0)}}})

\* every stored literal indexes val and invclause inside their storage
InRange == \A i \in 1..Len(clauses) : var(clauses[i]) <= nvars

\* ------------------------------------------------------------- actions
Init ==
    /\ input \in Inputs
    /\ pc = "start"
    /\ nvars = input.nvars
    /\ nclauses = input.nclauses
    /\ clauses = <<>>
    /\ start = <<>>
    /\ val = EmptyVal(input.nvars)
    /\ cost = EmptyCost(input.nvars)
    /\ invclause = EmptyInv(input.nvars)
    /\ f = <<>>
    /\ numtrue = EmptyNumtrue(input.nclauses)
    /\ w = EmptyW(input.nclauses)
    /\ K = clause_nil
    /\ all = FALSE
    /\ choice = lit_nil
    /\ out = <<>>

\* main: Cnf c = parse(argv[oidx])
Parse ==
    /\ pc = "start"
    /\ \E r \in {parse(input)} :
           /\ clauses' = r.clauses
           /\ start' = r.start
           /\ pc' = IF r.status = "ok" THEN "parsed" ELSE r.status
    /\ UNCHANGED <<input, nvars, nclauses, val, cost, invclause, f, numtrue,
                   w, K, all, choice, out>>

\* main: c.clauses.empty() short-circuits solve; SAT_EXIT prints val
MainEmpty ==
    /\ pc = "parsed"
    /\ clauses = <<>>
    /\ \E lines \in {print_assignment(val, nvars)} : out' = lines
    /\ pc' = "sat"
    /\ UNCHANGED <<input, nvars, nclauses, clauses, start, val, cost,
                   invclause, f, numtrue, w, K, all, choice>>

\* solve, W1: draw val, then fill invclause, numtrue, f, w and cost
W1 ==
    /\ pc = "parsed"
    /\ clauses # <<>>
    /\ InRange
    /\ \E vl \in [1..nvars -> BOOLEAN] :
          \E s \in {W1Result(vl)} :
              /\ val' = vl
              /\ invclause' = s.invclause
              /\ numtrue' = s.numtrue
              /\ cost' = s.cost
              /\ f' = s.f
              /\ w' = s.w
    /\ pc' = "W2"
    /\ UNCHANGED <<input, nvars, nclauses, clauses, start, K, all, choice,
                   out>>

\* solve, W1 on a literal whose variable exceeds nvars: val[var(l)] and
\* invclause[l] are accessed outside their storage, the behaviour is undefined
W1OutOfRange ==
    /\ pc = "parsed"
    /\ clauses # <<>>
    /\ ~InRange
    /\ pc' = "undefined"
    /\ UNCHANGED <<input, nvars, nclauses, clauses, start, val, cost,
                   invclause, f, numtrue, w, K, all, choice, out>>

\* W2 with f empty: solve returns true and main runs SAT_EXIT
W2Done ==
    /\ pc = "W2"
    /\ f = <<>>
    /\ \E lines \in {print_assignment(val, nvars)} : out' = lines
    /\ pc' = "sat"
    /\ UNCHANGED <<input, nvars, nclauses, clauses, start, val, cost,
                   invclause, f, numtrue, w, K, all, choice>>

\* one iteration W2..W5 with f non-empty, given the draws q, allv and coins
Iterate(q, allv, coins) ==
    /\ pc = "W2"
    /\ f # <<>>
    /\ q \in 0..(Len(f) - 1)
    /\ \E ch \in {W4Choice(At(f, q), allv, coins)} :
           /\ ch # lit_nil
           /\ K' = At(f, q)
           /\ all' = allv
           /\ choice' = ch
           /\ \E r \in {W5Flip(ch)} :
                  /\ val' = r.val
                  /\ numtrue' = r.numtrue
                  /\ cost' = r.cost
                  /\ f' = r.f
                  /\ w' = r.w
    /\ pc' = "W2"
    /\ UNCHANGED <<input, nvars, nclauses, clauses, start, invclause, out>>

\* the draws one iteration can make on the clause at position q of f
Coins(q) ==
    [0..(clause_end(clauses, start, At(f, q)) - clause_begin(start, At(f, q)) - 1)
        -> BOOLEAN]

Step ==
    \E q \in 0..(Len(f) - 1), allv \in BOOLEAN :
        \E coins \in Coins(q) : Iterate(q, allv, coins)

Next == Parse \/ MainEmpty \/ W1 \/ W1OutOfRange \/ W2Done \/ Step

Spec == Init /\ [][Next]_vars

\* ------------------------------------------------------------- fair draws
\* the largest variable count among the scenarios and the longer formulas
MaxInputV == S4.nvars

\* an iteration that flips variable v
FlipVar(v) == Step /\ choice' \in {v, -v}

\* The program is one thread that never blocks, so it takes a step whenever
\* one is possible; and a variable that the draws of W3 and W4 can select
\* again and again is, with random draws, selected again and again.
Fairness ==
    /\ WF_vars(Next)
    /\ \A v \in 1..MaxInputV : SF_vars(FlipVar(v))

FairInit ==
    /\ Init
    /\ input \in Scenarios \cup Longer \/ Len(input.toks) <= FairTokens

FairSpec == FairInit /\ [][Next]_vars /\ Fairness

\* ------------------------------------------------------------- f and w alone
\* a Cnf of MaxRegC clauses as the constructor leaves it: f empty, w all nil
RegInit ==
    /\ input = [nvars |-> 0, nclauses |-> MaxRegC, toks |-> <<>>]
    /\ pc = "registry"
    /\ nvars = 0
    /\ nclauses = MaxRegC
    /\ clauses = <<>>
    /\ start = <<>>
    /\ val = EmptyVal(0)
    /\ cost = EmptyCost(0)
    /\ invclause = EmptyInv(0)
    /\ f = <<>>
    /\ numtrue = EmptyNumtrue(MaxRegC)
    /\ w = EmptyW(MaxRegC)
    /\ K = clause_nil
    /\ all = FALSE
    /\ choice = lit_nil
    /\ out = <<>>

\* a call of register_satisfied(k); K keeps the argument of the last call
RegisterSatisfied(k) ==
    /\ pc = "registry"
    /\ \E r \in {register_satisfied([f |-> f, w |-> w], k)} :
           f' = r.f /\ w' = r.w
    /\ K' = k
    /\ UNCHANGED <<input, pc, nvars, nclauses, clauses, start, val, cost,
                   invclause, numtrue, all, choice, out>>

\* a call of register_unsatisfied(k)
RegisterUnsatisfied(k) ==
    /\ pc = "registry"
    /\ \E r \in {register_unsatisfied([f |-> f, w |-> w], k)} :
           f' = r.f /\ w' = r.w
    /\ K' = k
    /\ UNCHANGED <<input, pc, nvars, nclauses, clauses, start, val, cost,
                   invclause, numtrue, all, choice, out>>

RegNext ==
    \E k \in 0..(MaxRegC - 1) : RegisterSatisfied(k) \/ RegisterUnsatisfied(k)

RegSpec == RegInit /\ [][RegNext]_vars

\* ------------------------------------------------------------- formulas
\* the clause ids of the parsed formula
ClauseIds == 0..(Len(start) - 1)

\* the variables
Vars == 1..nvars

\* no assignment satisfies every clause
NoModel ==
    \A vl \in [Vars -> BOOLEAN] :
        \E k \in ClauseIds : ~is_satisfied(clauses, start, vl, k)

\* no clause mentions the same variable twice
NoRepeatedVar ==
    \A k \in ClauseIds :
        \A i, j \in clause_begin(start, k)..(clause_end(clauses, start, k) - 1) :
            i # j => var(At(clauses, i)) # var(At(clauses, j))

\* the clause stream has a 0 with no literal before it in its clause
HasEmptyClause(toks) ==
    \E p \in 1..Len(toks) : toks[p] = 0 /\ (p = 1 \/ toks[p - 1] = 0)

\* the clauses of a clause stream: the maximal runs of non-zero integers
RECURSIVE SplitAtZeros(_, _, _, _)
SplitAtZeros(toks, p, cur, acc) ==
    IF p > Len(toks) THEN (IF cur = <<>> THEN acc ELSE Append(acc, cur))
    ELSE IF toks[p] = 0 THEN SplitAtZeros(toks, p + 1, <<>>, Append(acc, cur))
    ELSE SplitAtZeros(toks, p + 1, Append(cur, toks[p]), acc)

InputClauses == SplitAtZeros(input.toks, 1, <<>>, <<>>)

\* C1: whenever solve has returned true, every clause of the formula has a
\* literal that is true under val.
C1_Sound ==
    pc = "sat" => \A k \in ClauseIds : is_satisfied(clauses, start, val, k)

\* solve returned after at least one flip on a formula of two or more clauses
C1_Witness == pc = "sat" /\ choice # lit_nil /\ Len(start) >= 2

\* C2: on a formula with no satisfying assignment (and no empty clause) f is
\* non-empty at every loop boundary and solve never returns.
C2_NeverSat ==
    (pc \in {"W2", "sat"} /\ NoModel) => (pc = "W2" /\ f # <<>>)

\* a loop boundary of an unsatisfiable formula after a flip
C2_Witness == pc = "W2" /\ NoModel /\ choice # lit_nil

\* C5 as stated: an empty clause anywhere gives the UNSAT exit at parse, and
\* every input without clauses exits SAT without searching.
C5_AsStated ==
    /\ (pc # "start" /\ HasEmptyClause(input.toks)) => pc = "unsat"
    /\ input.toks = <<>> => pc \in {"start", "parsed", "sat"}

\* C5 (amended): an empty clause anywhere gives the UNSAT exit at parse and
\* the search is never entered; an input with no clauses whose problem line
\* declares zero clauses exits SAT without searching.
C5_EmptyClauseUnsat ==
    /\ (pc # "start" /\ HasEmptyClause(input.toks)) =>
           (pc = "unsat" /\ f = <<>> /\ choice = lit_nil)
    /\ (input.toks = <<>> /\ input.nclauses = 0) =>
           (pc \in {"start", "parsed", "sat"} /\ choice = lit_nil)
    /\ pc = "unsat" => HasEmptyClause(input.toks)

\* the UNSAT exit on an empty clause that follows a non-empty clause
C5_Witness == pc = "unsat" /\ clauses # <<>>

\* C6: after a parse that passes the clause-count check, clause k read over
\* [clause_begin(k), clause_end(k)) is the k-th clause of the input, for every
\* k, with or without a 0 before EOF.
C6_RoundTrip ==
    pc = "parsed" =>
        /\ Len(start) = Len(InputClauses)
        /\ Len(start) = input.nclauses
        /\ \A k \in ClauseIds :
               ClauseLits(clauses, start, k) = InputClauses[k + 1]

\* two or more clauses parsed from a stream that ends without a 0
C6_Witness ==
    /\ pc = "parsed"
    /\ Len(start) >= 2
    /\ input.toks[Len(input.toks)] # 0

\* the clauses counted by the cost invariant for variable v
UniqueTrue(v) ==
    {k \in ClauseIds :
        /\ numtrue[k] = 1
        /\ \E itr \in clause_begin(start, k)..(clause_end(clauses, start, k) - 1) :
               is_true(val, At(clauses, itr)) /\ var(At(clauses, itr)) = v}

\* C8: at every loop boundary cost[v] is the number of clauses with
\* numtrue = 1 whose unique true literal has variable v.
C8_CostInvariant ==
    pc = "W2" => \A v \in Vars : cost[v] = Cardinality(UniqueTrue(v))

\* the clauses that flipping v alone would turn from satisfied to unsatisfied
Broken(v) ==
    {k \in ClauseIds :
        /\ is_satisfied(clauses, start, val, k)
        /\ ~is_satisfied(clauses, start, [val EXCEPT ![v] = ~@], k)}

\* C9 as stated: at every loop boundary, on every formula, flipping v would
\* break exactly cost[v] clauses.
C9_AsStated ==
    pc = "W2" => \A v \in Vars : cost[v] = Cardinality(Broken(v))

\* C9 (amended): on a formula in which no clause mentions the same variable
\* twice, at every loop boundary flipping v would break exactly cost[v]
\* clauses.
C9_BreakCount ==
    (pc = "W2" /\ NoRepeatedVar) =>
        \A v \in Vars : cost[v] = Cardinality(Broken(v))

\* after a flip, a variable whose flip would break two clauses
C9_Witness ==
    /\ pc = "W2"
    /\ NoRepeatedVar
    /\ choice # lit_nil
    /\ \E v \in Vars : cost[v] = 2 /\ Cardinality(Broken(v)) = 2

\* C10: at every loop boundary w[k] is non-nil iff numtrue[k] = 0, then
\* f[w[k]] = k; f has no duplicates and as many elements as there are clauses
\* with numtrue = 0.
C10_Stack ==
    pc = "W2" =>
        /\ \A k \in ClauseIds :
               /\ (w[k] # clause_nil) <=> (numtrue[k] = 0)
               /\ w[k] # clause_nil =>
                      (w[k] \in 0..(Len(f) - 1) /\ At(f, w[k]) = k)
        /\ \A i, j \in 1..Len(f) : i # j => f[i] # f[j]
        /\ Len(f) = Cardinality({k \in ClauseIds : numtrue[k] = 0})
        /\ Len(f) <= nclauses

\* a flip of a variable that occurs in both polarities in one clause of a
\* formula of two or more clauses
C10_Witness ==
    /\ pc = "W2"
    /\ choice # lit_nil
    /\ Len(start) >= 2
    /\ \E k \in ClauseIds :
           \E i, j \in clause_begin(start, k)..(clause_end(clauses, start, k) - 1) :
               At(clauses, i) = choice /\ At(clauses, j) = -choice

\* the literal the printer owes variable v
PrintedLit(v) == IF val[v] THEN v ELSE -v

\* the number of lines for nvars variables, PerLine to a line
LineCount == (nvars + PerLine - 1) \div PerLine

\* the variables of line n (one-based)
LineVars(n) ==
    [i \in 1..(IF n < LineCount THEN PerLine ELSE nvars - (n - 1) * PerLine)
        |-> (n - 1) * PerLine + i]

\* C4: at the SAT exit the printed lines list every variable once, in order,
\* v for val[v] true and -v for val[v] false, PerLine to a line, each line
\* prefixed with v, with 0 after the last variable.
C4_PrintedAssignment ==
    pc = "sat" =>
        /\ Len(out) = LineCount
        /\ \A n \in 1..Len(out) :
               /\ out[n].prefix = "v"
               /\ out[n].lits =
                      [i \in 1..Len(LineVars(n)) |-> PrintedLit(LineVars(n)[i])]
                      \o (IF n = LineCount THEN <<0>> ELSE <<>>)
        /\ \A k \in ClauseIds :
               \E itr \in clause_begin(start, k)..(clause_end(clauses, start, k) - 1) :
                   \E n \in 1..Len(out) : \E i \in 1..Len(out[n].lits) :
                       out[n].lits[i] = At(clauses, itr)

\* C3: on a satisfiable formula without an empty clause solve, under fair
\* draws, eventually returns from every loop boundary; for S1 the returned
\* assignment has val[1] = true.
C3_EventuallySat ==
    /\ (pc = "W2" /\ ~NoModel) ~> (pc = "sat")
    /\ [](pc = "sat" /\ input = S1 => val[1])

\* solve returned on scenario S5 after at least one flip
C3_Witness == pc = "sat" /\ input = S5 /\ choice # lit_nil

\* the offsets of clause k in clauses
Offsets(k) == clause_begin(start, k)..(clause_end(clauses, start, k) - 1)

\* the number of literal occurrences of clause k that are true under val
TrueCount(k) == Cardinality({itr \in Offsets(k) : is_true(val, At(clauses, itr))})

\* C11: at every loop boundary numtrue[k] is the number of literal
\* occurrences of clause k that are true under val, a literal that occurs m
\* times counting m times.
C11_Numtrue ==
    pc = "W2" => \A k \in ClauseIds : numtrue[k] = TrueCount(k)

\* after a flip whose literal occurs twice in one clause, now counted twice
C11_Witness ==
    /\ pc = "W2"
    /\ choice # lit_nil
    /\ \E k \in ClauseIds :
           /\ numtrue[k] >= 2
           /\ \E i, j \in Offsets(k) :
                  i # j /\ At(clauses, i) = choice /\ At(clauses, j) = choice

\* the number of times k occurs in the clause list cs
Occurrences(cs, k) == Cardinality({n \in 1..Len(cs) : cs[n] = k})

\* C12: at the end of W1, for every formula and every drawn assignment,
\* numtrue[k] is the true-literal count of clause k, f and w hold exactly the
\* clauses with numtrue = 0 (w[k] the position of k in f, nil otherwise),
\* cost[v] counts the clauses whose unique true literal has variable v, and
\* invclause[l] lists the clauses containing l in clause order, a clause with
\* l m times listed m times.
C12_W1Establishes ==
    (pc = "W2" /\ choice = lit_nil) =>
        /\ \A k \in ClauseIds :
               /\ numtrue[k] = TrueCount(k)
               /\ IF numtrue[k] = 0
                  THEN w[k] \in 0..(Len(f) - 1) /\ At(f, w[k]) = k
                  ELSE w[k] = clause_nil
        /\ Len(f) = Cardinality({k \in ClauseIds : numtrue[k] = 0})
        /\ \A v \in Vars : cost[v] = Cardinality(UniqueTrue(v))
        /\ \A l \in Lits(nvars) :
               /\ \A n \in 1..Len(invclause[l]) : invclause[l][n] \in ClauseIds
               /\ \A n \in 2..Len(invclause[l]) :
                      invclause[l][n - 1] <= invclause[l][n]
               /\ \A k \in ClauseIds :
                      Occurrences(invclause[l], k) =
                          Cardinality({itr \in Offsets(k) : At(clauses, itr) = l})

\* the end of W1 on the formula (-2 -2 -1)(2 2)(1) with an unsatisfied
\* clause, a clause of one true literal and a literal listed twice
C12_Witness ==
    /\ pc = "W2"
    /\ choice = lit_nil
    /\ input = RepeatedTwice
    /\ f # <<>>
    /\ \E v \in Vars : cost[v] >= 1
    /\ \E l \in Lits(nvars) : \E k \in ClauseIds : Occurrences(invclause[l], k) = 2

\* the literals of clause c
KLits(c) == {At(clauses, itr) : itr \in Offsets(c)}

\* the literals of clause c whose variable has the least cost in c
MinCostLits(c) ==
    {l \in KLits(c) : \A m \in KLits(c) : cost[var(l)] <= cost[var(m)]}

\* the literals W4 can end with on the clause at position q of f
Support(q, allv) == {W4Choice(At(f, q), allv, coins) : coins \in Coins(q)}

\* the policy of W4 on the clause at position q of f under the draw allv
Policy(q, allv) ==
    Support(q, allv) =
        IF (\E l \in KLits(At(f, q)) : cost[var(l)] = 0) \/ ~allv
        THEN MinCostLits(At(f, q))
        ELSE KLits(At(f, q))

\* C13: at every loop boundary, whatever clause K W3 selects, the literals
\* W4 can end with are exactly the minimum-cost literals of K when some cost
\* in K is 0 or all is false, and exactly the literals of K otherwise.
C13_SelectionPolicy ==
    pc = "W2" => \A q \in 0..(Len(f) - 1), allv \in BOOLEAN : Policy(q, allv)

\* C14: in every loop boundary with f non-empty, every index W3 can draw
\* names a clause of the formula, W4 ends with choice a literal of that
\* clause whatever the draws (never nil), and the iteration has a successor.
C14_LoopCannotFail ==
    (pc = "W2" /\ f # <<>>) =>
        /\ \A q \in 0..(Len(f) - 1) :
               /\ At(f, q) \in ClauseIds
               /\ \A allv \in BOOLEAN : \A coins \in Coins(q) :
                      /\ W4Choice(At(f, q), allv, coins) # lit_nil
                      /\ W4Choice(At(f, q), allv, coins) \in KLits(At(f, q))
        /\ ENABLED Step

\* a loop boundary after a flip with two clauses left in f, one of them with
\* two or more literals
C14_Witness ==
    /\ pc = "W2"
    /\ choice # lit_nil
    /\ Len(f) >= 2
    /\ \E q \in 0..(Len(f) - 1) : Cardinality(Offsets(At(f, q))) >= 2

\* cost[1] + ... + cost[n]
RECURSIVE SumCost(_)
SumCost(n) == IF n = 0 THEN 0 ELSE cost[n] + SumCost(n - 1)

\* C15: at every loop boundary the sum of cost[v] over all variables is the
\* number of clauses with numtrue = 1, on every formula.
C15_SumCheck ==
    pc = "W2" =>
        SumCost(nvars) = Cardinality({k \in ClauseIds : numtrue[k] = 1})

\* the clauses on f
OnF(fs) == {fs[i] : i \in 1..Len(fs)}

\* the reverse-index invariant of f and w over the clauses 0..n-1
ReverseIndex(fs, ws, n) ==
    /\ \A i \in 1..Len(fs) : fs[i] \in 0..(n - 1)
    /\ \A k \in 0..(n - 1) :
           IF ws[k] = clause_nil THEN k \notin OnF(fs)
           ELSE ws[k] \in 0..(Len(fs) - 1) /\ At(fs, ws[k]) = k

\* C16: from every state of f and w with the reverse-index invariant,
\* register_satisfied(k) with w[k] non-nil removes exactly k from f, sets
\* w[k] to nil and leaves w[j] the position of j for every other j;
\* register_unsatisfied(k) with w[k] nil appends k and sets w[k] = |f| - 1;
\* register_satisfied with w[k] nil and register_unsatisfied with w[k]
\* non-nil change nothing.
C16_SwapRemove ==
    pc = "registry" =>
        /\ ReverseIndex(f, w, MaxRegC)
        /\ \A k \in 0..(MaxRegC - 1) :
               LET s == [f |-> f, w |-> w]
                   rs == register_satisfied(s, k)
                   ru == register_unsatisfied(s, k)
               IN  IF w[k] # clause_nil
                   THEN /\ Len(rs.f) = Len(f) - 1
                        /\ OnF(rs.f) = OnF(f) \ {k}
                        /\ rs.w[k] = clause_nil
                        /\ ReverseIndex(rs.f, rs.w, MaxRegC)
                        /\ ru = s
                   ELSE /\ ru.f = Append(f, k)
                        /\ ru.w = [w EXCEPT ![k] = Len(ru.f) - 1]
                        /\ rs = s

\* after register_satisfied(K) took K from below the top of f: a clause
\* stands in f before a clause pushed earlier, and two clauses remain
C16_Witness ==
    /\ pc = "registry"
    /\ K # clause_nil
    /\ w[K] = clause_nil
    /\ Len(f) >= 2
    /\ \E i, j \in 1..Len(f) : i < j /\ f[i] > f[j]

\* C17: once parse has returned, every stored literal l has 1 <= |l| <= V,
\* start has as many entries as the declared C, is non-decreasing and, when
\* C > 0, begins with 0; so no input that breaks one of these gets past parse.
C17_WellFormed ==
    pc \in {"parsed", "W2", "sat", "undefined"} =>
        /\ \A i \in 1..Len(clauses) : var(clauses[i]) \in 1..nvars
        /\ Len(start) = nclauses
        /\ \A k \in 1..(Len(start) - 1) : At(start, k - 1) <= At(start, k)
        /\ nclauses > 0 => At(start, 0) = 0

\* clause k mentions variable v
Mentions(k, v) == \E itr \in Offsets(k) : var(At(clauses, itr)) = v

\* C18: no step from a loop boundary changes the formula (clauses, start,
\* nvars, nclauses) or invclause; an iteration changes val at exactly one
\* variable, and changes numtrue[k] or the membership of k in f only for
\* clauses k that mention that variable.
C18_Frame ==
    [][pc = "W2" =>
           /\ UNCHANGED <<clauses, start, nvars, nclauses, invclause>>
           /\ pc' = "W2" =>
                  \E v \in Vars :
                      /\ val'[v] # val[v]
                      /\ \A u \in Vars \ {v} : val'[u] = val[u]
                      /\ \A k \in ClauseIds :
                             (\/ numtrue'[k] # numtrue[k]
                              \/ (k \in OnF(f')) # (k \in OnF(f)))
                                 => Mentions(k, v)]_vars

\* after a flip, an unsatisfied clause that does not mention the flipped
\* variable is still in f
C18_Witness ==
    /\ pc = "W2"
    /\ choice # lit_nil
    /\ \E k \in ClauseIds : ~Mentions(k, var(choice)) /\ k \in OnF(f)

\* C19: in every iteration the clause K taken from f has numtrue[K] = 0, the
\* chosen literal is a literal of K that is false before the flip and true
\* after it, and at the next loop boundary K is satisfied and not in f.
C19_ChosenClause ==
    [][(pc = "W2" /\ pc' = "W2") =>
           /\ K' \in OnF(f)
           /\ numtrue[K'] = 0
           /\ choice' \in KLits(K')
           /\ ~is_true(val, choice')
           /\ is_true(val', choice')
           /\ numtrue'[K'] >= 1
           /\ is_satisfied(clauses, start, val', K')
           /\ K' \notin OnF(f')
           /\ w'[K'] = clause_nil]_vars

\* after an iteration that satisfied K and left another clause unsatisfied
C19_Witness ==
    /\ pc = "W2"
    /\ choice # lit_nil
    /\ is_true(val, choice)
    /\ K \notin OnF(f)
    /\ f # <<>>

\* the clauses an iteration turns from satisfied to unsatisfied
BrokenByStep == {k \in ClauseIds : numtrue[k] >= 1 /\ numtrue'[k] = 0}

\* the unsatisfied clauses that contain literal l
UnsatWith(l) == {k \in OnF(f) : l \in KLits(k)}

\* C20: on a formula in which no clause mentions the same variable twice, an
\* iteration whose selected clause has a variable of cost 0 turns no
\* satisfied clause unsatisfied and shortens f; every iteration breaks as
\* many clauses as the cost of the flipped variable and changes |f| by that
\* number minus the number of unsatisfied clauses containing the chosen
\* literal, which is at least 1.
C20_GreedyStep ==
    [][(pc = "W2" /\ pc' = "W2" /\ NoRepeatedVar) =>
           /\ (\E l \in KLits(K') : cost[var(l)] = 0) =>
                  (BrokenByStep = {} /\ Len(f') < Len(f))
           /\ Cardinality(BrokenByStep) = cost[var(choice')]
           /\ Cardinality(UnsatWith(choice')) >= 1
           /\ Len(f') - Len(f) =
                  cost[var(choice')] - Cardinality(UnsatWith(choice'))]_vars

\* a loop boundary reached by a flip, on a formula without a repeated
\* variable, where a clause of f has a variable of cost 0 and a variable
\* whose flip would break a clause
C20_Witness ==
    /\ pc = "W2"
    /\ NoRepeatedVar
    /\ choice # lit_nil
    /\ \E q \in 0..(Len(f) - 1) :
           /\ \E l \in KLits(At(f, q)) : cost[var(l)] = 0
           /\ \E l \in KLits(At(f, q)) : cost[var(l)] >= 1
====
